---- MODULE Spec2Model ----
(***************************************************************************)
(* StaticPool<T, N>: a fixed-size pool of N items of type T, addressed by  *)
(* 1-based integer handles (src/lib.rs).                                   *)
(*                                                                         *)
(* The pool is the record `pool` (fields items, free, len, as the struct). *)
(* Every method is an operator taking `self` and returning the record      *)
(*   [self |-> the pool afterwards, ret |-> the returned Option,           *)
(*    panic |-> TRUE iff an array was indexed out of bounds].              *)
(* A `&T` is modelled by the value it points at, a `&mut T` by the index   *)
(* of the slot it points at.                                               *)
(***************************************************************************)
EXTENDS Integers, FiniteSets, Sequences, TLC

\* Largest pool size N explored (N is a const generic of the type).
MaxN == 3
\* Values of T are 0..MaxVal.
MaxVal == 1

\* <T as Default>::default(), for an integer T.
Default == 0

Values == 0 .. MaxVal
Sizes == 0 .. MaxN

VARIABLES
    N,          \* the const generic N of this pool
    pool,       \* the StaticPool value: [items, free, len]
    op,         \* the last call and what it returned: [name, handle, ret]
    panicked,   \* TRUE once a call has indexed an array out of bounds
    old,        \* history: the pool as it was when the last call was entered
    calls,      \* history: alloc() calls made before the first free(),
                \*          saturating at N + 1; 0 once free() was called
    pristine,   \* history: TRUE while free() has not been called
    freed,      \* history: handles freed while occupied, not yet re-allocated
    written,    \* history: handle -> value last written through get_mut,
                \*          forgotten when free() is called on the handle
    live        \* history: handle -> how often alloc() returned it since it
                \*          was last passed to free(), counted up to 2

vars == <<N, pool, op, panicked, old, calls, pristine, freed, written, live>>

\* Option<_>
None == [some |-> FALSE, val |-> 0]
Some(x) == [some |-> TRUE, val |-> x]

\* The handle values a caller may pass: 0, the handles 1..N, and N + 1 > N.
Handles == 0 .. (N + 1)

\* Rust's bounds check on arr[i].
InBounds(arr, i) == i \in DOMAIN arr

Ok(self, ret) == [self |-> self, ret |-> ret, panic |-> FALSE]
Fault(self) == [self |-> self, ret |-> None, panic |-> TRUE]

\* Variant of new: `free: [false; N]`.
new_all_occupied(n) ==
    [items |-> [i \in 0 .. (n - 1) |-> Default],
     free |-> [i \in 0 .. (n - 1) |-> FALSE],
     len |-> 0]

\* StaticPool::new for a pool of n items
new(n) ==
    [items |-> [i \in 0 .. (n - 1) |-> Default],
     free |-> [i \in 0 .. (n - 1) |-> TRUE],
     len |-> 0]

\* the loop `for i in 0..N` of next_free_handle, from index i on
RECURSIVE next_free_handle_from(_, _)
next_free_handle_from(self, i) ==
    IF i >= N THEN Ok(self, None)
    ELSE IF ~InBounds(self.free, i) THEN Fault(self)
    ELSE IF self.free[i]
         THEN Ok([self EXCEPT !.free[i] = FALSE], Some(i + 1))
         ELSE next_free_handle_from(self, i + 1)

\* Variants of next_free_handle, each a slip the loop could contain.
\* (a) the scan runs from the highest index down
RECURSIVE next_free_handle_down(_, _)
next_free_handle_down(self, i) ==
    IF i < 0 THEN Ok(self, None)
    ELSE IF ~InBounds(self.free, i) THEN Fault(self)
    ELSE IF self.free[i]
         THEN Ok([self EXCEPT !.free[i] = FALSE], Some(i + 1))
         ELSE next_free_handle_down(self, i - 1)

next_free_handle_highest(self) == next_free_handle_down(self, N - 1)

\* (b) `let handle = i`
RECURSIVE next_free_handle_zero_from(_, _)
next_free_handle_zero_from(self, i) ==
    IF i >= N THEN Ok(self, None)
    ELSE IF ~InBounds(self.free, i) THEN Fault(self)
    ELSE IF self.free[i]
         THEN Ok([self EXCEPT !.free[i] = FALSE], Some(i))
         ELSE next_free_handle_zero_from(self, i + 1)

next_free_handle_zero_based(self) == next_free_handle_zero_from(self, 0)

\* (c) `for i in 1..N`
next_free_handle_skip_first(self) == next_free_handle_from(self, 1)

\* (d) `for i in 0..N - 1`
RECURSIVE next_free_handle_short_from(_, _)
next_free_handle_short_from(self, i) ==
    IF i >= N - 1 THEN Ok(self, None)
    ELSE IF ~InBounds(self.free, i) THEN Fault(self)
    ELSE IF self.free[i]
         THEN Ok([self EXCEPT !.free[i] = FALSE], Some(i + 1))
         ELSE next_free_handle_short_from(self, i + 1)

next_free_handle_short(self) == next_free_handle_short_from(self, 0)

\* (e) every free flag is cleared, not only the one of the returned handle
next_free_handle_mark_all(self) ==
    LET r == next_free_handle_from(self, 0) IN
    IF r.ret.some
    THEN Ok([self EXCEPT !.free = [i \in DOMAIN self.free |-> FALSE]], r.ret)
    ELSE r

\* (f) `self.free[i] = false` is missing
RECURSIVE next_free_handle_no_mark_from(_, _)
next_free_handle_no_mark_from(self, i) ==
    IF i >= N THEN Ok(self, None)
    ELSE IF ~InBounds(self.free, i) THEN Fault(self)
    ELSE IF self.free[i]
         THEN Ok(self, Some(i + 1))
         ELSE next_free_handle_no_mark_from(self, i + 1)

next_free_handle_no_mark(self) == next_free_handle_no_mark_from(self, 0)

next_free_handle(self) == next_free_handle_from(self, 0)

\* Variants of alloc.
\* (a) the item is not reset
alloc_no_reset(self) == next_free_handle(self)

\* (b) `self.items[handle] = Default::default()`
alloc_off_by_one(self) ==
    LET r == next_free_handle(self) IN
    IF r.panic \/ ~r.ret.some THEN r
    ELSE LET handle == r.ret.val IN
         IF ~InBounds(r.self.items, handle) THEN Fault(r.self)
         ELSE Ok([r.self EXCEPT !.items[handle] = Default], Some(handle))

\* (c) every item is reset
alloc_reset_all(self) ==
    LET r == next_free_handle(self) IN
    IF r.panic \/ ~r.ret.some THEN r
    ELSE Ok([r.self EXCEPT !.items = [i \in DOMAIN r.self.items |-> Default]],
            r.ret)

\* (d) the counter is incremented
alloc_counts(self) ==
    LET r == next_free_handle(self) IN
    IF r.panic \/ ~r.ret.some THEN r
    ELSE LET handle == r.ret.val IN
         IF ~InBounds(r.self.items, handle - 1) THEN Fault(r.self)
         ELSE Ok([r.self EXCEPT !.items[handle - 1] = Default,
                                !.len = r.self.len + 1], Some(handle))

alloc(self) ==
    LET r == next_free_handle(self) IN
    IF r.panic \/ ~r.ret.some THEN r
    ELSE LET handle == r.ret.val IN
         IF ~InBounds(r.self.items, handle - 1) THEN Fault(r.self)
         ELSE Ok([r.self EXCEPT !.items[handle - 1] = Default], Some(handle))

\* Variants of free.
\* (a) `self.free[handle]` for `self.free[handle - 1]`
free_off_by_one(self, handle) ==
    IF handle > 0 /\ handle <= N
    THEN IF ~InBounds(self.free, handle) THEN Fault(self)
         ELSE IF ~self.free[handle]
              THEN Ok([self EXCEPT !.free[handle] = TRUE], None)
              ELSE Ok(self, None)
    ELSE Ok(self, None)

\* (b) the flag is toggled, not set
free_toggle(self, handle) ==
    IF handle > 0 /\ handle <= N
    THEN IF ~InBounds(self.free, handle - 1) THEN Fault(self)
         ELSE Ok([self EXCEPT !.free[handle - 1] = ~self.free[handle - 1]], None)
    ELSE Ok(self, None)

\* (c) `handle >= 0` for `handle > 0`
free_allows_zero(self, handle) ==
    IF handle >= 0 /\ handle <= N
    THEN IF ~InBounds(self.free, handle - 1) THEN Fault(self)
         ELSE IF ~self.free[handle - 1]
              THEN Ok([self EXCEPT !.free[handle - 1] = TRUE], None)
              ELSE Ok(self, None)
    ELSE Ok(self, None)

\* (d) the item is reset when it is freed
free_clear(self, handle) ==
    IF handle > 0 /\ handle <= N
    THEN IF ~InBounds(self.free, handle - 1) THEN Fault(self)
         ELSE IF ~self.free[handle - 1]
              THEN Ok([self EXCEPT !.free[handle - 1] = TRUE,
                                   !.items[handle - 1] = Default], None)
              ELSE Ok(self, None)
    ELSE Ok(self, None)

\* (e) `if self.free[handle - 1]`, the negation lost
free_inverted(self, handle) ==
    IF handle > 0 /\ handle <= N
    THEN IF ~InBounds(self.free, handle - 1) THEN Fault(self)
         ELSE IF self.free[handle - 1]
              THEN Ok([self EXCEPT !.free[handle - 1] = TRUE], None)
              ELSE Ok(self, None)
    ELSE Ok(self, None)

free(self, handle) ==
    IF handle > 0 /\ handle <= N
    THEN IF ~InBounds(self.free, handle - 1) THEN Fault(self)
         ELSE IF ~self.free[handle - 1]
              THEN Ok([self EXCEPT !.free[handle - 1] = TRUE], None)
              ELSE Ok(self, None)
    ELSE Ok(self, None)

\* Variant of get: the occupancy flag is not consulted.
get_unchecked(self, handle) ==
    IF handle > 0 /\ handle <= N
    THEN IF ~InBounds(self.items, handle - 1) THEN Fault(self)
         ELSE Ok(self, Some(self.items[handle - 1]))
    ELSE Ok(self, None)

get(self, handle) ==
    IF handle > 0 /\ handle <= N
    THEN IF ~InBounds(self.free, handle - 1) THEN Fault(self)
         ELSE IF ~self.free[handle - 1]
              THEN IF ~InBounds(self.items, handle - 1) THEN Fault(self)
                   ELSE Ok(self, Some(self.items[handle - 1]))
              ELSE Ok(self, None)
    ELSE Ok(self, None)

\* Variant of get_mut: `&mut self.items[handle]`.
get_mut_off_by_one(self, handle) ==
    IF handle > 0 /\ handle <= N
    THEN IF ~InBounds(self.free, handle - 1) THEN Fault(self)
         ELSE IF ~self.free[handle - 1]
              THEN IF ~InBounds(self.items, handle) THEN Fault(self)
                   ELSE Ok(self, Some(handle))
              ELSE Ok(self, None)
    ELSE Ok(self, None)

get_mut(self, handle) ==
    IF handle > 0 /\ handle <= N
    THEN IF ~InBounds(self.free, handle - 1) THEN Fault(self)
         ELSE IF ~self.free[handle - 1]
              THEN IF ~InBounds(self.items, handle - 1) THEN Fault(self)
                   ELSE Ok(self, Some(handle - 1))
              ELSE Ok(self, None)
    ELSE Ok(self, None)

\* `*r = v` for the `&mut T` r that get_mut returned
store(self, r, v) == [self EXCEPT !.items[r] = v]

Init ==
    /\ N \in Sizes
    /\ pool = new(N)
    /\ op = [name |-> "new", handle |-> 0, ret |-> None]
    /\ panicked = FALSE
    /\ old = pool
    /\ calls = 0
    /\ pristine = TRUE
    /\ freed = {}
    /\ written = << >>
    /\ live = << >>

\* pool.alloc()
Alloc ==
    /\ ~panicked
    /\ LET r == alloc(pool) IN
        /\ pool' = r.self
        /\ panicked' = r.panic
        /\ op' = [name |-> "alloc", handle |-> 0, ret |-> r.ret]
        /\ freed' = IF r.ret.some THEN freed \ {r.ret.val} ELSE freed
        /\ live' = IF r.ret.some
                   THEN [h \in (DOMAIN live) \cup {r.ret.val} |->
                            IF h # r.ret.val THEN live[h]
                            ELSE IF h \in DOMAIN live THEN 2 ELSE 1]
                   ELSE live
    /\ old' = pool
    /\ calls' = IF pristine /\ calls < N + 1 THEN calls + 1 ELSE calls
    /\ UNCHANGED <<N, pristine, written>>

\* pool.free(handle)
Free ==
    /\ ~panicked
    /\ \E handle \in Handles :
        LET r == free(pool, handle) IN
        /\ pool' = r.self
        /\ panicked' = r.panic
        /\ op' = [name |-> "free", handle |-> handle, ret |-> None]
        /\ freed' = IF handle \in 1 .. N /\ ~pool.free[handle - 1]
                    THEN freed \cup {handle} ELSE freed
        /\ written' = [h \in (DOMAIN written) \ {handle} |-> written[h]]
        /\ live' = [h \in (DOMAIN live) \ {handle} |-> live[h]]
    /\ old' = pool
    /\ pristine' = FALSE
    /\ calls' = 0
    /\ UNCHANGED N

\* pool.get(handle)
Get ==
    /\ ~panicked
    /\ \E handle \in Handles :
        LET r == get(pool, handle) IN
        /\ pool' = r.self
        /\ panicked' = r.panic
        /\ op' = [name |-> "get", handle |-> handle, ret |-> r.ret]
    /\ old' = pool
    /\ UNCHANGED <<N, calls, pristine, freed, written, live>>

\* if let Some(r) = pool.get_mut(handle) { *r = v }
GetMut ==
    /\ ~panicked
    /\ \E handle \in Handles, v \in Values :
        LET r == get_mut(pool, handle) IN
        /\ pool' = IF r.ret.some THEN store(r.self, r.ret.val, v) ELSE r.self
        /\ panicked' = r.panic
        /\ op' = [name |-> "get_mut", handle |-> handle, ret |-> r.ret]
        /\ written' = IF r.ret.some
                      THEN [h \in (DOMAIN written) \cup {handle} |->
                               IF h = handle THEN v ELSE written[h]]
                      ELSE written
    /\ old' = pool
    /\ UNCHANGED <<N, calls, pristine, freed, live>>

Next == Alloc \/ Free \/ Get \/ GetMut

Spec == Init /\ [][Next]_vars

(***************************************************************************)
(* Properties                                                              *)
(***************************************************************************)

\* The slots of a pool value and what the flags say of them.
Slots(self) == DOMAIN self.free
HasFree(self) == \E i \in Slots(self) : self.free[i]
Full(self) == \A i \in Slots(self) : ~self.free[i]
LowestFree(self) ==
    CHOOSE i \in Slots(self) :
        self.free[i] /\ \A j \in Slots(self) : self.free[j] => i <= j

\* C1 (first-fit allocation): whenever alloc() is called on a pool with a
\* free slot it returns Some(i + 1) for the lowest free index i and that slot
\* is occupied afterwards; a handle returned by alloc() is always in 1..N.
C1_FirstFit ==
    op.name = "alloc" =>
        /\ ~panicked
        /\ HasFree(old) =>
              /\ op.ret = Some(LowestFree(old) + 1)
              /\ ~pool.free[LowestFree(old)]
        /\ op.ret.some => op.ret.val \in 1 .. N

\* alloc() chose among several free slots, the lowest of them not slot 0
C1_Witness ==
    /\ op.name = "alloc"
    /\ op.ret.some
    /\ op.ret.val > 1
    /\ \E j \in Slots(old) : j > op.ret.val - 1 /\ old.free[j]

\* C2 (capacity bound): on a fresh pool of any size N, while free() has not
\* been called, the k-th alloc() returns Some(k) for k = 1..N, and the
\* (N + 1)-th and every later alloc() returns None.
C2_CapacityBound ==
    (op.name = "alloc" /\ pristine) =>
        /\ calls >= 1
        /\ calls <= N => op.ret = Some(calls)
        /\ calls > N => op.ret = None

\* a pool of at least two slots was filled and one more alloc() failed
C2_Witness ==
    /\ op.name = "alloc"
    /\ pristine
    /\ N >= 2
    /\ calls = N + 1
    /\ op.ret = None
    /\ Full(pool)

\* C3 (handle validity): in every reachable state and for every handle h,
\* 0 and N + 1 included, get(h) is Some exactly when 1 <= h <= N and slot
\* h - 1 is occupied; get_mut(h) is Some for exactly the same handles; and
\* when Some, get gives the value stored in slot h - 1 and get_mut refers to
\* slot h - 1.
C3_HandleValidity ==
    \A h \in Handles :
        LET g == get(pool, h)
            m == get_mut(pool, h)
        IN  /\ ~g.panic /\ ~m.panic
            /\ g.ret.some <=> (1 <= h /\ h <= N /\ ~pool.free[h - 1])
            /\ m.ret.some <=> g.ret.some
            /\ g.ret.some => /\ g.ret.val = pool.items[h - 1]
                             /\ m.ret.val = h - 1
            /\ ~g.ret.some => g.ret = None /\ m.ret = None

\* get() has just answered Some with a non-default value while another slot
\* of the pool is free and still holds a non-default value
C3_Witness ==
    /\ op.name = "get"
    /\ op.ret.some
    /\ op.ret.val # Default
    /\ \E h \in 1 .. N : pool.free[h - 1] /\ pool.items[h - 1] # Default

\* C4 (freed-handle invalidity): a handle freed while occupied gives None
\* from get and from get_mut, in every state from the free() on until an
\* alloc() returns that handle again.
C4_FreedInvalid ==
    \A h \in freed :
        /\ get(pool, h).ret = None
        /\ get_mut(pool, h).ret = None

\* a freed handle is still refused after other handles were freed and an
\* alloc() re-used one of those, although its slot holds the old value
C4_Witness ==
    /\ op.name = "alloc"
    /\ op.ret.some
    /\ \E h \in freed : h # op.ret.val /\ pool.items[h - 1] # Default

\* C5 (default-on-alloc): right after a successful alloc() returning h,
\* get(h) is Some(default), also when slot h - 1 held a non-default value of
\* an earlier occupant.
C5_DefaultOnAlloc ==
    (op.name = "alloc" /\ op.ret.some) =>
        get(pool, op.ret.val).ret = Some(Default)

\* alloc() re-used a slot that held a non-default value
C5_Witness ==
    /\ op.name = "alloc"
    /\ op.ret.some
    /\ old.items[op.ret.val - 1] # Default
    /\ pool.items[op.ret.val - 1] = Default

\* C6 (read/write consistency): once v is written through get_mut(h), get(h)
\* returns v in every later state, whatever alloc(), free(h') with h' # h,
\* get and writes to other handles happen, until free(h) is called (or h is
\* written again).
C6_ReadWrite ==
    \A h \in DOMAIN written : get(pool, h).ret = Some(written[h])

\* a written non-default value survived the free of another occupied handle
\* and an alloc() that re-used that handle
C6_Witness ==
    /\ op.name = "alloc"
    /\ op.ret.some
    /\ old.items[op.ret.val - 1] # Default
    /\ \E h \in DOMAIN written : h # op.ret.val /\ written[h] # Default

\* C7 (slot reuse determinism): for every handle k freed while occupied and
\* not re-allocated since, an alloc() succeeds, returns no handle greater
\* than k, and returns k itself when every slot below k - 1 is occupied.
C7_ReuseLowest ==
    [][op'.name = "alloc" =>
        \A k \in freed :
            /\ op'.ret.some
            /\ op'.ret.val <= k
            /\ (\A i \in 0 .. (k - 2) : ~pool.free[i]) => op'.ret.val = k]_vars

\* a freed handle, not the first, was returned again while a higher slot
\* was free as well
C7_Witness ==
    /\ op.name = "alloc"
    /\ op.ret.some
    /\ op.ret.val > 1
    /\ op.ret.val \notin freed
    /\ old.items[op.ret.val - 1] # Default
    /\ \E j \in Slots(old) : j > op.ret.val - 1 /\ old.free[j]

\* C8 (idempotent release): for every reachable pool and every handle h,
\* free(h) applied twice gives the same pool (flags, values, counter) as
\* free(h) applied once, and free(h) on a free slot changes nothing; the
\* same is observed of every free() call made on a free slot.
C8_IdempotentFree ==
    /\ \A h \in Handles :
          LET once == free(pool, h)
              twice == free(once.self, h)
          IN  /\ ~once.panic /\ ~twice.panic
              /\ twice.self = once.self
              /\ (h \in 1 .. N /\ pool.free[h - 1]) => once.self = pool
    /\ (op.name = "free" /\ op.handle \in 1 .. N /\ old.free[op.handle - 1])
          => pool = old

\* a double free: free() was called on a handle that had been freed already
\* and whose slot still holds a non-default value
C8_Witness ==
    /\ op.name = "free"
    /\ op.handle \in freed
    /\ old.free[op.handle - 1]
    /\ pool.items[op.handle - 1] # Default

\* C9 (out-of-range safety): in every reachable state, for handle 0 and for
\* a handle greater than N, get and get_mut return None, free leaves the
\* pool unchanged, and no call indexes an array out of bounds.
C9_OutOfRange ==
    /\ ~panicked
    /\ \A h \in Handles \ (1 .. N) :
          /\ get(pool, h) = Ok(pool, None)
          /\ get_mut(pool, h) = Ok(pool, None)
          /\ free(pool, h) = Ok(pool, None)
    /\ (op.name \in {"free", "get", "get_mut"} /\ op.handle \notin 1 .. N)
          => pool = old /\ op.ret = None

\* free() was called with handle N + 1 on a pool whose last slot is occupied
C9_Witness ==
    /\ op.name = "free"
    /\ op.handle = N + 1
    /\ N >= 1
    /\ ~pool.free[N - 1]
    /\ pool = old

\* C10 (allocation exhaustion): alloc() returns None exactly when every one
\* of the N slots was occupied at the call, and a failing alloc() leaves
\* every flag and every value as it was.
C10_Exhaustion ==
    op.name = "alloc" =>
        /\ op.ret = None <=> Full(old)
        /\ op.ret = None => pool.free = old.free /\ pool.items = old.items

\* alloc() failed on a full pool that holds a non-default value
C10_Witness ==
    /\ op.name = "alloc"
    /\ op.ret = None
    /\ N >= 1
    /\ \E i \in Slots(pool) : pool.items[i] # Default

\* C11 (initial state): right after new() every one of the N slots is free
\* and holds the default value, the counter is 0, and get(h) and get_mut(h)
\* are None for every handle h.
C11_InitialState ==
    op.name = "new" =>
        /\ Slots(pool) = 0 .. (N - 1)
        /\ DOMAIN pool.items = 0 .. (N - 1)
        /\ \A i \in Slots(pool) : pool.free[i] /\ pool.items[i] = Default
        /\ pool.len = 0
        /\ \A h \in Handles :
              get(pool, h).ret = None /\ get_mut(pool, h).ret = None

\* a pool of at least two slots has just been constructed
C11_Witness ==
    /\ op.name = "new"
    /\ N >= 2
    /\ pool = old
    /\ calls = 0

\* C12 (un-generationed handle reuse): when alloc() returns a handle h that
\* was freed before, the old h is valid again and refers to the new
\* occupant: get(h) is Some(default), neither None nor the value of the
\* previous occupant, and get_mut(h) refers to the slot again.
C12_HandleReuse ==
    [][(op'.name = "alloc" /\ op'.ret.some /\ op'.ret.val \in freed) =>
          /\ get(pool, op'.ret.val).ret = None
          /\ get(pool', op'.ret.val).ret = Some(Default)
          /\ get_mut(pool', op'.ret.val).ret = Some(op'.ret.val - 1)]_vars

\* a handle whose previous occupant held a non-default value was returned
\* again and now reads as the default
C12_Witness ==
    /\ op.name = "alloc"
    /\ op.ret.some
    /\ old.free[op.ret.val - 1]
    /\ old.items[op.ret.val - 1] # Default
    /\ get(pool, op.ret.val).ret = Some(Default)
    /\ get(old, op.ret.val).ret = None

\* The handles whose slot is occupied.
OccupiedHandles(self) == {i + 1 : i \in {j \in Slots(self) : ~self.free[j]}}
\* The slots whose flag the last call changed.
Flipped == {i \in Slots(pool) : pool.free[i] # old.free[i]}

\* C13 (per-slot state machine): every slot starts Free; a slot goes from
\* Free to Occupied only by a successful alloc() that returns its handle and
\* from Occupied to Free only by free() of its handle; one call changes the
\* flag of at most one slot, free(h) changes no slot but h - 1, and get and
\* get_mut change no flag.
C13_SlotStateMachine ==
    /\ Slots(pool) = Slots(old)
    /\ op.name = "new" => \A i \in Slots(pool) : pool.free[i]
    /\ \A i \in Slots(pool) :
          /\ (old.free[i] /\ ~pool.free[i]) =>
                op.name = "alloc" /\ op.ret = Some(i + 1)
          /\ (~old.free[i] /\ pool.free[i]) =>
                op.name = "free" /\ op.handle = i + 1
    /\ Cardinality(Flipped) <= 1
    /\ op.name = "free" => Flipped \subseteq {op.handle - 1}
    /\ op.name \in {"get", "get_mut"} => Flipped = {}

\* alloc() has occupied exactly one of two free slots, next to an occupied one
C13_Witness ==
    /\ op.name = "alloc"
    /\ Flipped = {op.ret.val - 1}
    /\ \E i, j \in Slots(pool) :
          /\ pool.free[i] /\ old.free[i]
          /\ ~pool.free[j] /\ ~old.free[j]

\* C14 (frame of free): free(h) on an occupied handle sets the flag of slot
\* h - 1 and changes nothing else: the value of slot h - 1 and the values and
\* flags of all other slots stay; and the value of a freed slot stays in it
\* through every later call but an alloc() that returns its handle.
C14_FreeFrame ==
    [][/\ (op'.name = "free" /\ op'.handle \in OccupiedHandles(pool)) =>
             pool' = [pool EXCEPT !.free[op'.handle - 1] = TRUE]
       /\ \A h \in freed :
             ~(op'.name = "alloc" /\ op'.ret = Some(h)) =>
                 pool'.items[h - 1] = pool.items[h - 1]]_vars

\* an occupied handle holding a non-default value has just been freed while
\* another freed slot still keeps the non-default value of its occupant
C14_Witness ==
    /\ op.name = "free"
    /\ op.handle \in OccupiedHandles(old)
    /\ pool.free[op.handle - 1]
    /\ pool.items[op.handle - 1] # Default
    /\ \E h \in freed : h # op.handle /\ pool.items[h - 1] # Default

\* C15 (reusability): no reachable state of a pool with N >= 1 is stuck: a
\* succeeding alloc() or a free() that frees a slot is possible in it; and
\* after free(h) of any occupied handle the next alloc() succeeds, however
\* many alloc/free cycles came before.
C15_Reusable ==
    /\ ~panicked
    /\ N >= 1 =>
          \/ alloc(pool).ret.some
          \/ \E h \in Handles : free(pool, h).self # pool
    /\ \A h \in OccupiedHandles(pool) :
          LET f == free(pool, h) IN
          /\ ~f.panic
          /\ f.self # pool
          /\ alloc(f.self).ret.some
    /\ (op.name = "free" /\ Flipped # {}) => alloc(pool).ret.some

\* after at least one free() the pool is full again and alloc() has failed
C15_Witness ==
    /\ op.name = "alloc"
    /\ op.ret = None
    /\ ~pristine
    /\ N >= 2
    /\ Full(pool)

\* C16 (no double allocation): alloc() never returns a handle whose slot was
\* occupied at the call, so in every state the handles returned by alloc()
\* and not freed since are pairwise distinct and are exactly the handles of
\* the occupied slots.
C16_NoDoubleAlloc ==
    /\ (op.name = "alloc" /\ op.ret.some) =>
          /\ op.ret.val \in 1 .. N
          /\ old.free[op.ret.val - 1]
    /\ \A h \in DOMAIN live : live[h] = 1
    /\ DOMAIN live = OccupiedHandles(pool)

\* alloc() succeeded after a free(), and two handles or more are outstanding
C16_Witness ==
    /\ op.name = "alloc"
    /\ op.ret.some
    /\ ~pristine
    /\ Cardinality(DOMAIN live) >= 2
    /\ freed # {}

\* C17 (frame of alloc): a successful alloc() returning h writes the default
\* into slot h - 1 and leaves the value of every other slot, occupied or
\* free, as it was.
C17_AllocFrame ==
    (op.name = "alloc" /\ op.ret.some) =>
        /\ DOMAIN pool.items = DOMAIN old.items
        /\ pool.items[op.ret.val - 1] = Default
        /\ \A i \in DOMAIN pool.items :
              i # op.ret.val - 1 => pool.items[i] = old.items[i]

\* alloc() succeeded while an occupied slot and a free slot, both other than
\* the returned one, hold non-default values
C17_Witness ==
    /\ op.name = "alloc"
    /\ op.ret.some
    /\ \E i, j \in Slots(pool) :
          /\ i # op.ret.val - 1 /\ j # op.ret.val - 1
          /\ ~pool.free[i] /\ pool.items[i] # Default
          /\ pool.free[j] /\ pool.items[j] # Default

\* C18 (occupancy counter): in every reachable state the counter len equals
\* the number of occupied slots and lies in 0..N.
C18_CounterTracksOccupancy ==
    /\ pool.len = Cardinality(OccupiedHandles(pool))
    /\ pool.len \in 0 .. N

\* C19 (counter frame): new() sets the counter len to 0 and alloc, free, get
\* and get_mut leave it unchanged, so it is 0 in every reachable state.
C19_CounterFrame ==
    /\ op.name = "new" => pool.len = 0
    /\ pool.len = old.len
    /\ pool.len = 0

\* the counter is 0 although slots are occupied and one was just freed
C19_Witness ==
    /\ op.name = "free"
    /\ Flipped # {}
    /\ OccupiedHandles(pool) # {}
    /\ pool.len = 0

====
